---- MODULE Spec2Model ----
(***************************************************************************)
(* Interactive force-graph canvas: ForceGraphState (state.rs) and the      *)
(* pointer / wheel / frame handlers of ForceGraphCanvas (component.rs).    *)
(*                                                                         *)
(* Floating point is modelled in fixed point, every operation rounding to  *)
(* the nearest representable value:                                        *)
(*   lengths (screen and world, f64/f32)  in 1/LenScale pixel,             *)
(*   the zoom factor k (f64)              in 1/KScale,                     *)
(*   the highlight intensity (f64)        in 1/HScale,                     *)
(*   times (dt, delay_t, flow_time)       in milliseconds.                 *)
(*                                                                         *)
(* data is the links list of the GraphData handed to the component (its    *)
(* nodes are NodeIds); left holds the events each specification still      *)
(* admits.                                                                 *)
(***************************************************************************)
EXTENDS Integers, Sequences, FiniteSets, TLC

VARIABLES data, graph, edges, transform, drag, pan, hover, width, height,
          animation_running, flow_time, left, obs

vars == <<data, graph, edges, transform, drag, pan, hover, width, height,
          animation_running, flow_time, left, obs>>

-----------------------------------------------------------------------------
(* Fixed-point resolutions *)
LenScale == 10
KScale == 1000
HScale == 10000

(* Option::None of an Option<DefaultNodeIdx> *)
None == -1

(* a / b rounded to the nearest integer (b > 0) *)
RoundDiv(a, b) == (2 * a + b) \div (2 * b)

Abs(a) == IF a < 0 THEN -a ELSE a

Min(a, b) == IF a < b THEN a ELSE b

Clamp(v, lo, hi) == IF v < lo THEN lo ELSE IF v > hi THEN hi ELSE v

-----------------------------------------------------------------------------
(* Program constants *)
HIT_RADIUS == 12 * LenScale
K_MIN == KScale \div 10
K_MAX == 10 * KScale
FRAME_DT == 16
HOVER_DELAY == 80
HOVER_SPEED == 180
FADE_SPEED == 126
FADE_EPSILON == HScale \div 100
LAYOUT_RADIUS == 100 * LenScale
NODE_T_MIN == HScale \div 1000

-----------------------------------------------------------------------------
(* Bounds of the model *)
PtrBudget == 3
WheelBudget == 1
TickBudget == 1
DriftBudget == 1
ZoomPtrBudget == 1
ZoomWheelBudget == 2
ZoomTickBudget == 1
HoverPtrBudget == 1
HoverTickBudget == 232

(* Ticks within which a cleared highlight is claimed to reach zero *)
DecayBound == 230

WheelStepBudget == 2

GatePtrBudget == 2
GateTickBudget == 2
PickPtrBudget == 2
RunPtrBudget == 1
RunTickBudget == 2
StepPtrBudget == 2
StepTickBudget == 3
NewPtrBudget == 1
MaxLinks == 2

(* Wheel runs <<n, deltaY>> before the zoom specification starts *)
ZoomRuns == { <<0, 100>>, <<21, 100>>, <<24, -100>> }

(* World distance to the right of node 0 at which node 1 has been dropped  *)
(* before the hit-test specification starts: on it, 5 px off, 20 px off    *)
PickOffsets == {0, 5 * LenScale, 20 * LenScale}

(* Frames spent on node 1 before the highlight specification starts: none, *)
(* one frame short of the delay, the frame that reaches it, and a long run *)
GateFrames == {0, 4, 5, 220}

(* Frames spent on node 1 before the hover specification starts *)
RiseFrames == {0, 220}

(* GraphData inputs: three nodes, link lists with a chain, parallel links, *)
(* a self-loop and a link whose target id names no node.                   *)
NodeIds == <<"a", "b", "c">>

LinkLists ==
    { << <<"a", "b">>, <<"b", "c">> >>,
      << <<"c", "a">>, <<"c", "a">>, <<"b", "b">>, <<"b", "z">> >> }

(* Ids a link of the construction specification may name; "z" names no node *)
LinkIds == {"a", "b", "c", "z"}

(* Every link list of at most n links over LinkIds *)
AllLinks(n) == UNION { [1..k -> LinkIds \X LinkIds] : k \in 0..n }

(* Canvas sizes (pixels) *)
Sizes == { <<200, 200>>, <<300, 200>> }

(* Pointer positions handed to the handlers, in length units: the screen   *)
(* places of nodes 0 and 1 right after construction on a 200 x 200 canvas, *)
(* and a place with no node near it.                                       *)
ScreenPts == { <<3000, 2000>>, <<1500, 2866>>, <<600, 400>> }

(* Screen places and deltaY of wheel events *)
WheelPts == { <<3000, 2000>>, <<600, 400>> }

DeltaYs == {-100, 0, 100}

(* Screen places of the wheel events of the wheel-step specification:      *)
(* (50, 50), the screen place of node 0 and a place with no node           *)
WheelStepPts == { <<500, 500>>, <<3000, 2000>>, <<600, 400>> }

(* Timesteps (ms) of direct calls of tick: none, a frame, and 0.56 s *)
TickDts == {0, 16, 560}

(* Displacement of a free node by one integrator step that moves it *)
DriftStep == 15 * LenScale

-----------------------------------------------------------------------------
(* cos and sin of 2*pi*i/3, times 1000 *)
Circle == << <<1000, 0>>, <<-500, 866>>, <<-500, -866>> >>

(* id_to_idx.get(id): the index of the last node inserted under that id *)
IdToIdx(ids, id) ==
    LET hits == {i \in 1..Len(ids) : ids[i] = id}
    IN  IF hits = {} THEN None
        ELSE (CHOOSE i \in hits : \A j \in hits : j <= i) - 1

(* The link loop of ForceGraphState::new skipping links from a node to itself *)
RECURSIVE ResolveLinks_no_self_loops(_, _)
ResolveLinks_no_self_loops(ids, links) ==
    IF links = <<>> THEN <<>>
    ELSE LET src == IdToIdx(ids, Head(links)[1])
             tgt == IdToIdx(ids, Head(links)[2])
             rest == ResolveLinks_no_self_loops(ids, Tail(links))
         IN  IF src # None /\ tgt # None /\ src # tgt
             THEN <<<<src, tgt>>>> \o rest ELSE rest

(* The link loop of ForceGraphState::new *)
RECURSIVE ResolveLinks(_, _)
ResolveLinks(ids, links) ==
    IF links = <<>> THEN <<>>
    ELSE LET src == IdToIdx(ids, Head(links)[1])
             tgt == IdToIdx(ids, Head(links)[2])
             rest == ResolveLinks(ids, Tail(links))
         IN  IF src # None /\ tgt # None THEN <<<<src, tgt>>>> \o rest ELSE rest

(* The node loop of ForceGraphState::new: node i on a circle of radius 100 *)
(* around (width/2, height/2), not anchored.                               *)
NewNodes(ids, w, h) ==
    [i \in 0..(Len(ids) - 1) |->
        [x |-> w \div 2 + RoundDiv(LAYOUT_RADIUS * Circle[i + 1][1], 1000),
         y |-> h \div 2 + RoundDiv(LAYOUT_RADIUS * Circle[i + 1][2], 1000),
         is_anchor |-> FALSE]]

DragDefault ==
    [active |-> FALSE, node_idx |-> None, start_x |-> 0, start_y |-> 0,
     node_start_x |-> 0, node_start_y |-> 0]

PanDefault ==
    [active |-> FALSE, start_x |-> 0, start_y |-> 0,
     transform_start_x |-> 0, transform_start_y |-> 0]

HoverDefault ==
    [node |-> None, neighbors |-> {}, highlight_t |-> 0,
     prev_node |-> None, prev_neighbors |-> {}, delay_t |-> 0]

-----------------------------------------------------------------------------
(* screen_to_graph without the division by k *)
screen_to_graph_unscaled(t, sx, sy) == <<sx - t.x, sy - t.y>>

(* ForceGraphState::screen_to_graph *)
screen_to_graph(t, sx, sy) ==
    <<RoundDiv((sx - t.x) * KScale, t.k), RoundDiv((sy - t.y) * KScale, t.k)>>

(* sqrt(dx*dx + dy*dy) < HIT_RADIUS *)
WithinHit(node, g) ==
    LET dx == node.x - g[1]
        dy == node.y - g[2]
    IN  /\ Abs(dx) < HIT_RADIUS
        /\ Abs(dy) < HIT_RADIUS
        /\ dx * dx + dy * dy < HIT_RADIUS * HIT_RADIUS

(* The visit_nodes loop of node_at_position from node i on, in insertion order *)
RECURSIVE VisitFrom(_, _, _, _)
VisitFrom(gr, g, i, found) ==
    IF i \notin DOMAIN gr THEN found
    ELSE VisitFrom(gr, g, i + 1, IF WithinHit(gr[i], g) THEN i ELSE found)

(* node_at_position returning the nearest node within the hit radius, the  *)
(* earliest of them when several are equally near                          *)
node_at_position_nearest(gr, t, sx, sy) ==
    LET g == screen_to_graph(t, sx, sy)
        Q == {i \in DOMAIN gr : WithinHit(gr[i], g)}
        D(i) == (gr[i].x - g[1]) * (gr[i].x - g[1]) + (gr[i].y - g[2]) * (gr[i].y - g[2])
    IN  IF Q = {} THEN None
        ELSE CHOOSE i \in Q : \A j \in Q : D(i) < D(j) \/ (D(i) = D(j) /\ i <= j)

(* ForceGraphState::node_at_position *)
node_at_position(gr, t, sx, sy) ==
    VisitFrom(gr, screen_to_graph(t, sx, sy), 0, None)

(* The edge loop of set_hover following links from their source only *)
RECURSIVE Neighbors_outgoing(_, _)
Neighbors_outgoing(es, idx) ==
    IF es = <<>> THEN {}
    ELSE LET rest == Neighbors_outgoing(Tail(es), idx)
         IN  IF Head(es)[1] = idx THEN rest \cup {Head(es)[2]} ELSE rest

(* The edge loop of set_hover *)
RECURSIVE Neighbors(_, _)
Neighbors(es, idx) ==
    IF es = <<>> THEN {}
    ELSE LET src == Head(es)[1]
             tgt == Head(es)[2]
             rest == Neighbors(Tail(es), idx)
         IN  IF src = idx THEN rest \cup {tgt}
             ELSE IF tgt = idx THEN rest \cup {src}
             ELSE rest

(* set_hover dropping the previous-hover snapshot when the target is cleared *)
set_hover_no_snapshot(hv, es, node) ==
    IF hv.node = node THEN hv
    ELSE [node |-> node,
          neighbors |-> IF node # None THEN Neighbors(es, node) ELSE {},
          highlight_t |-> hv.highlight_t,
          prev_node |-> None,
          prev_neighbors |-> {},
          delay_t |-> IF node # None /\ hv.node = None THEN 0 ELSE hv.delay_t]

(* set_hover keeping a target it already has *)
set_hover_keep_target(hv, es, node) ==
    IF hv.node = node \/ hv.node # None THEN hv
    ELSE [node |-> node,
          neighbors |-> Neighbors(es, node),
          highlight_t |-> hv.highlight_t,
          prev_node |-> None,
          prev_neighbors |-> {},
          delay_t |-> 0]

(* set_hover taking the snapshot on every change away from a hovered node *)
set_hover_snapshot_always(hv, es, node) ==
    IF hv.node = node THEN hv
    ELSE [node |-> node,
          neighbors |-> IF node # None THEN Neighbors(es, node) ELSE {},
          highlight_t |-> hv.highlight_t,
          prev_node |-> hv.node,
          prev_neighbors |-> hv.neighbors,
          delay_t |-> IF node # None /\ hv.node = None THEN 0 ELSE hv.delay_t]

(* set_hover resetting the delay timer for every new node *)
set_hover_resets_delay(hv, es, node) ==
    IF hv.node = node THEN hv
    ELSE [node |-> node,
          neighbors |-> IF node # None THEN Neighbors(es, node) ELSE {},
          highlight_t |-> hv.highlight_t,
          prev_node |-> IF hv.node # None /\ node = None THEN hv.node ELSE None,
          prev_neighbors |-> IF hv.node # None /\ node = None THEN hv.neighbors ELSE {},
          delay_t |-> IF node # None THEN 0 ELSE hv.delay_t]

(* set_hover leaving the previous-hover snapshot in place when a node     *)
(* becomes the target                                                      *)
set_hover_keep_snapshot(hv, es, node) ==
    IF hv.node = node THEN hv
    ELSE [node |-> node,
          neighbors |-> IF node # None THEN Neighbors(es, node) ELSE {},
          highlight_t |-> hv.highlight_t,
          prev_node |-> IF hv.node # None /\ node = None THEN hv.node ELSE hv.prev_node,
          prev_neighbors |-> IF hv.node # None /\ node = None THEN hv.neighbors
                             ELSE hv.prev_neighbors,
          delay_t |-> IF node # None /\ hv.node = None THEN 0 ELSE hv.delay_t]

(* set_hover leaving the live neighbor set in place when the target is     *)
(* cleared                                                                 *)
set_hover_stale_neighbors(hv, es, node) ==
    IF hv.node = node THEN hv
    ELSE [node |-> node,
          neighbors |-> IF node # None THEN Neighbors(es, node) ELSE hv.neighbors,
          highlight_t |-> hv.highlight_t,
          prev_node |-> IF hv.node # None /\ node = None THEN hv.node ELSE None,
          prev_neighbors |-> IF hv.node # None /\ node = None THEN hv.neighbors ELSE {},
          delay_t |-> IF node # None /\ hv.node = None THEN 0 ELSE hv.delay_t]

(* ForceGraphState::set_hover *)
set_hover(hv, es, node) ==
    IF hv.node = node THEN hv
    ELSE LET was_hovering == hv.node # None
             saved == was_hovering /\ node = None
         IN  [node |-> node,
              neighbors |-> IF node # None THEN Neighbors(es, node) ELSE {},
              highlight_t |-> hv.highlight_t,
              prev_node |-> IF saved THEN hv.node ELSE None,
              prev_neighbors |-> IF saved THEN hv.neighbors ELSE {},
              delay_t |-> IF node # None /\ ~was_hovering THEN 0 ELSE hv.delay_t]

(* The hover update of on_mousemove made whatever the drag state is *)
move_hover_always(hv, es, d, node) == set_hover(hv, es, node)

(* The hover update of on_mousemove: with no drag active the hover target  *)
(* becomes `node`, the result of the hit test at the pointer               *)
move_hover(hv, es, d, node) ==
    IF ~d.active THEN set_hover(hv, es, node) ELSE hv

(* ForceGraphState::is_highlighted *)
is_highlighted(hv, idx) ==
    \/ hv.node = idx
    \/ idx \in hv.neighbors
    \/ hv.prev_node = idx
    \/ idx \in hv.prev_neighbors

(* node_intensity(idx) read by the renderer: the eased intensity for a     *)
(* node of the live or the previous highlight set, 0 for any other node    *)
node_intensity(hv, idx) ==
    IF is_highlighted(hv, idx) THEN hv.highlight_t ELSE 0

(* Node indices in visit (insertion) order *)
VisitOrder(gr) == [i \in 1..Cardinality(DOMAIN gr) |-> i - 1]

(* draw_nodes drawing every body in one pass over the nodes *)
draw_nodes_single_pass(gr, hv) ==
    [i \in 1..Cardinality(DOMAIN gr) |->
        <<IF node_intensity(hv, i - 1) > NODE_T_MIN THEN 3 ELSE 2, i - 1>>]

(* The calls of draw_node made by draw_nodes, as <<pass, node>>: the second *)
(* pass skips every node with node_t > 0.001, the third pass every other   *)
draw_nodes(gr, hv) ==
    LET Plain(i) == ~(node_intensity(hv, i) > NODE_T_MIN)
        Lit(i) == ~(node_intensity(hv, i) <= NODE_T_MIN)
        second == SelectSeq(VisitOrder(gr), Plain)
        third == SelectSeq(VisitOrder(gr), Lit)
    IN  [k \in 1..Len(second) |-> <<2, second[k]>>]
            \o [k \in 1..Len(third) |-> <<3, third[k]>>]

(* graph.update(dt) of the force_graph crate: a node that is an anchor     *)
(* keeps its position; a free node is moved by the integrator (here: by    *)
(* one DriftStep when the step moves the layout at all).                   *)
graph_update(gr, moves) ==
    [i \in DOMAIN gr |->
        IF gr[i].is_anchor \/ ~moves THEN gr[i]
        ELSE [gr[i] EXCEPT !.x = @ + DriftStep]]

(* The highlight part of tick without the snap to zero below the epsilon *)
tick_hover_no_snap(hv, dt) ==
    IF hv.node # None
    THEN LET d == Min(hv.delay_t + dt, HOVER_DELAY)
         IN  [hv EXCEPT !.delay_t = d,
                        !.highlight_t =
                            IF d >= HOVER_DELAY
                            THEN @ + RoundDiv((HScale - @) * HOVER_SPEED * dt, 100000)
                            ELSE @]
    ELSE [hv EXCEPT !.highlight_t =
                        @ + RoundDiv((0 - @) * FADE_SPEED * dt, 100000)]

(* The highlight part of tick rising without waiting for the delay *)
tick_hover_no_delay(hv, dt) ==
    IF hv.node # None
    THEN [hv EXCEPT !.delay_t = Min(hv.delay_t + dt, HOVER_DELAY),
                    !.highlight_t = @ + RoundDiv((HScale - @) * HOVER_SPEED * dt, 100000)]
    ELSE LET h == hv.highlight_t + RoundDiv((0 - hv.highlight_t) * FADE_SPEED * dt, 100000)
         IN  IF h < FADE_EPSILON
             THEN [hv EXCEPT !.highlight_t = 0, !.prev_node = None,
                             !.prev_neighbors = {}]
             ELSE [hv EXCEPT !.highlight_t = h]

(* The highlight part of ForceGraphState::tick *)
tick_hover(hv, dt) ==
    IF hv.node # None
    THEN LET d == Min(hv.delay_t + dt, HOVER_DELAY)
         IN  [hv EXCEPT !.delay_t = d,
                        !.highlight_t =
                            IF d >= HOVER_DELAY
                            THEN @ + RoundDiv((HScale - @) * HOVER_SPEED * dt, 100000)
                            ELSE @]
    ELSE LET h == hv.highlight_t + RoundDiv((0 - hv.highlight_t) * FADE_SPEED * dt, 100000)
         IN  IF h < FADE_EPSILON
             THEN [hv EXCEPT !.highlight_t = 0, !.prev_node = None,
                             !.prev_neighbors = {}]
             ELSE [hv EXCEPT !.highlight_t = h]

(* on_wheel without the clamp of the new k *)
wheel_zoom_unclamped(t, x, y, delta_y) ==
    LET new_k == RoundDiv(t.k * (IF delta_y > 0 THEN 9 ELSE 11), 10)
    IN  [x |-> x - RoundDiv((x - t.x) * new_k, t.k),
         y |-> y - RoundDiv((y - t.y) * new_k, t.k),
         k |-> new_k]

(* on_wheel moving the origin by the wheel factor, not by new_k / k *)
wheel_zoom_by_factor(t, x, y, delta_y) ==
    LET factor == IF delta_y > 0 THEN 9 ELSE 11
    IN  [x |-> x - RoundDiv((x - t.x) * factor, 10),
         y |-> y - RoundDiv((y - t.y) * factor, 10),
         k |-> Clamp(RoundDiv(t.k * factor, 10), K_MIN, K_MAX)]

(* on_wheel with the two factors exchanged *)
wheel_zoom_inverted(t, x, y, delta_y) ==
    LET new_k == Clamp(RoundDiv(t.k * (IF delta_y > 0 THEN 11 ELSE 9), 10),
                       K_MIN, K_MAX)
    IN  [x |-> x - RoundDiv((x - t.x) * new_k, t.k),
         y |-> y - RoundDiv((y - t.y) * new_k, t.k),
         k |-> new_k]

(* The transform part of on_wheel: the ratio new_k / k is applied as the   *)
(* fraction it is, with one rounding                                       *)
wheel_zoom(t, x, y, delta_y) ==
    LET new_k == Clamp(RoundDiv(t.k * (IF delta_y > 0 THEN 9 ELSE 11), 10),
                       K_MIN, K_MAX)
    IN  [x |-> x - RoundDiv((x - t.x) * new_k, t.k),
         y |-> y - RoundDiv((y - t.y) * new_k, t.k),
         k |-> new_k]

(* The hit branch of on_mousedown leaving the node's position unrecorded *)
start_drag_no_origin(d, gr, idx, x, y) ==
    [d EXCEPT !.active = TRUE, !.node_idx = idx, !.start_x = x, !.start_y = y]

(* The hit branch of on_mousedown: the press position and the position of  *)
(* node idx at the press are recorded                                      *)
start_drag(d, gr, idx, x, y) ==
    [active |-> TRUE, node_idx |-> idx, start_x |-> x, start_y |-> y,
     node_start_x |-> gr[idx].x, node_start_y |-> gr[idx].y]

(* The miss branch of on_mousedown: the press position and the transform's *)
(* (x, y) are recorded                                                     *)
start_pan(t, x, y) ==
    [active |-> TRUE, start_x |-> x, start_y |-> y,
     transform_start_x |-> t.x, transform_start_y |-> t.y]

(* The drag branch of on_mousemove adding the screen delta as it is *)
drag_target_undivided(d, t, x, y) ==
    <<d.node_start_x + (x - d.start_x), d.node_start_y + (y - d.start_y)>>

(* The drag branch of on_mousemove: the position (nx, ny) for the dragged  *)
(* node, its position at the press plus the screen delta divided by k      *)
drag_target(d, t, x, y) ==
    <<d.node_start_x + RoundDiv((x - d.start_x) * KScale, t.k),
      d.node_start_y + RoundDiv((y - d.start_y) * KScale, t.k)>>

(* The pan branch of on_mousemove dividing the screen delta by k *)
pan_view_scaled(t, pn, x, y) ==
    [t EXCEPT !.x = pn.transform_start_x + RoundDiv((x - pn.start_x) * KScale, t.k),
              !.y = pn.transform_start_y + RoundDiv((y - pn.start_y) * KScale, t.k)]

(* The pan branch of on_mousemove: the transform's (x, y) at the press     *)
(* plus the screen delta                                                   *)
pan_view(t, pn, x, y) ==
    [t EXCEPT !.x = pn.transform_start_x + (x - pn.start_x),
              !.y = pn.transform_start_y + (y - pn.start_y)]

(* The closure of on_mousemove placing the node without pinning it *)
drag_node_unpinned(gr, idx, nx, ny) ==
    [i \in DOMAIN gr |->
        IF i = idx THEN [gr[i] EXCEPT !.x = nx, !.y = ny] ELSE gr[i]]

(* The visit_nodes_mut closure of on_mousemove: node idx is placed and pinned *)
drag_node(gr, idx, nx, ny) ==
    [i \in DOMAIN gr |->
        IF i = idx THEN [x |-> nx, y |-> ny, is_anchor |-> TRUE] ELSE gr[i]]

(* The closure of on_mouseup releasing the node instead of pinning it *)
unpin_node(gr, idx) ==
    [i \in DOMAIN gr |-> IF i = idx THEN [gr[i] EXCEPT !.is_anchor = FALSE] ELSE gr[i]]

(* The visit_nodes_mut closure of on_mouseup: node idx is pinned *)
anchor_node(gr, idx) ==
    [i \in DOMAIN gr |-> IF i = idx THEN [gr[i] EXCEPT !.is_anchor = TRUE] ELSE gr[i]]

-----------------------------------------------------------------------------
(* Observers: obs.moved is the last drag assignment <<node, x, y>> of the  *)
(* drag in progress; obs.pin is <<node, x, y, n>> for a drag that was      *)
(* released with no pointer or wheel event since, n counting the frames    *)
(* since the release in which the integrator moved the layout; obs.since   *)
(* is the number of ticks since the hover target was last cleared.         *)
ObsInit == [moved |-> <<>>, pin |-> <<>>, since |-> 0]

Budgets(p, w, t, d) == [ptr |-> p, wheel |-> w, tick |-> t, drift |-> d]

(* ForceGraphState::new(data, 200, 200), but for the transform and hover  *)
(* fields, which each specification sets; with `stacked`, node 1 has then  *)
(* been dragged onto node 0 and released.                                  *)
Constructed(stacked) ==
    /\ width = 200 * LenScale
    /\ height = 200 * LenScale
    /\ \E links \in LinkLists :
          /\ data = links
          /\ edges = ResolveLinks(NodeIds, links)
          /\ graph = LET gr == NewNodes(NodeIds, width, height)
                     IN  IF stacked
                         THEN anchor_node(drag_node(gr, 1, gr[0].x, gr[0].y), 1)
                         ELSE gr
    /\ drag = DragDefault
    /\ pan = PanDefault
    /\ animation_running = TRUE
    /\ obs = ObsInit

(* The transform ForceGraphState::new builds *)
NewTransform == [x |-> width \div 2, y |-> height \div 2, k |-> KScale]

(* The state right after construction *)
Init ==
    /\ Constructed(FALSE)
    /\ transform = NewTransform
    /\ hover = HoverDefault
    /\ flow_time = 0
    /\ left = Budgets(PtrBudget, WheelBudget, TickBudget, DriftBudget)

(* n wheel events with deltaY dy, each at the screen place of the world    *)
(* origin (which such an event leaves where it is)                         *)
RECURSIVE WheelRun(_, _, _)
WheelRun(t, n, dy) ==
    IF n = 0 THEN t ELSE WheelRun(wheel_zoom(t, t.x, t.y, dy), n - 1, dy)

(* The state after construction, possibly a drag of node 1 onto node 0     *)
(* (pointer-down on node 1, pointer-move to node 0, pointer-up), and a run *)
(* of wheel events that leaves k at 1.0, one zoom-out step above K_MIN or  *)
(* one zoom-in step below K_MAX                                            *)
InitZoom ==
    /\ \E stacked \in BOOLEAN : Constructed(stacked)
    /\ \E run \in ZoomRuns : transform = WheelRun(NewTransform, run[1], run[2])
    /\ hover = HoverDefault
    /\ flow_time = 0
    /\ left = Budgets(ZoomPtrBudget, ZoomWheelBudget, ZoomTickBudget, DriftBudget)

(* n frames (the first half of the run is  *)
(* evaluated before the second half starts)                                *)
RECURSIVE TickRun(_, _)
TickRun(hv, n) ==
    IF n = 0 THEN hv
    ELSE IF n = 1 THEN tick_hover(hv, FRAME_DT)
    ELSE LET half == TickRun(hv, n \div 2)
         IN  IF half.delay_t >= 0 THEN TickRun(half, n - n \div 2) ELSE half

(* The state after construction, a pointer-move onto node 1 and n frames;  *)
(* the layout is at rest in this specification                             *)
InitHover ==
    /\ Constructed(FALSE)
    /\ transform = NewTransform
    /\ \E n \in RiseFrames :
          /\ hover = TickRun(set_hover(HoverDefault, edges, 1), n)
          /\ flow_time = n * FRAME_DT
    /\ left = Budgets(HoverPtrBudget, 0, HoverTickBudget, 0)

SinceAfterHover(hv) ==
    IF hv.node # None \/ hv.node # hover.node THEN 0 ELSE obs.since

(* on_mousedown at screen point p *)
MouseDown(p) ==
    /\ left.ptr > 0
    /\ left' = [left EXCEPT !.ptr = @ - 1]
    /\ LET idx == node_at_position(graph, transform, p[1], p[2])
       IN  IF idx # None
           THEN /\ drag' = start_drag(drag, graph, idx, p[1], p[2])
                /\ pan' = pan
           ELSE /\ pan' = start_pan(transform, p[1], p[2])
                /\ drag' = drag
    /\ obs' = [obs EXCEPT !.moved = <<>>, !.pin = <<>>]
    /\ UNCHANGED <<graph, data, edges, transform, hover, width, height,
                   animation_running, flow_time>>

(* on_mousemove at screen point p *)
MouseMove(p) ==
    /\ left.ptr > 0
    /\ left' = [left EXCEPT !.ptr = @ - 1]
    /\ hover' = move_hover(hover, edges, drag,
                           node_at_position(graph, transform, p[1], p[2]))
    /\ IF drag.active
       THEN IF drag.node_idx # None
            THEN LET nx == drag_target(drag, transform, p[1], p[2])[1]
                     ny == drag_target(drag, transform, p[1], p[2])[2]
                 IN  /\ graph' = drag_node(graph, drag.node_idx, nx, ny)
                     /\ obs' = [moved |-> <<drag.node_idx, nx, ny>>, pin |-> <<>>,
                                since |-> obs.since]
                     /\ UNCHANGED transform
            ELSE /\ obs' = [obs EXCEPT !.moved = <<>>, !.pin = <<>>]
                 /\ UNCHANGED <<graph, transform>>
       ELSE /\ obs' = [moved |-> <<>>, pin |-> <<>>, since |-> SinceAfterHover(hover')]
            /\ graph' = graph
            /\ transform' = IF pan.active
                            THEN pan_view(transform, pan, p[1], p[2])
                            ELSE transform
    /\ UNCHANGED <<data, edges, drag, pan, width, height, animation_running, flow_time>>

(* on_mouseup *)
MouseUp ==
    /\ left.ptr > 0
    /\ left' = [left EXCEPT !.ptr = @ - 1]
    /\ graph' = IF drag.active /\ drag.node_idx # None
                THEN anchor_node(graph, drag.node_idx)
                ELSE graph
    /\ drag' = [drag EXCEPT !.active = FALSE, !.node_idx = None]
    /\ pan' = [pan EXCEPT !.active = FALSE]
    /\ obs' = [obs EXCEPT
                 !.moved = <<>>,
                 !.pin = IF drag.active /\ obs.moved # <<>> /\ obs.moved[1] = drag.node_idx
                         THEN obs.moved \o <<0>> ELSE <<>>]
    /\ UNCHANGED <<data, edges, transform, hover, width, height, animation_running,
                   flow_time>>

(* on_mouseleave *)
MouseLeave ==
    /\ left.ptr > 0
    /\ left' = [left EXCEPT !.ptr = @ - 1]
    /\ drag' = [drag EXCEPT !.active = FALSE, !.node_idx = None]
    /\ pan' = [pan EXCEPT !.active = FALSE]
    /\ hover' = set_hover(hover, edges, None)
    /\ obs' = [moved |-> <<>>, pin |-> <<>>, since |-> SinceAfterHover(hover')]
    /\ UNCHANGED <<graph, data, edges, transform, width, height, animation_running,
                   flow_time>>

(* on_wheel at screen point p with deltaY dy *)
Wheel(p, dy) ==
    /\ left.wheel > 0
    /\ left' = [left EXCEPT !.wheel = @ - 1]
    /\ transform' = wheel_zoom(transform, p[1], p[2], dy)
    /\ obs' = [obs EXCEPT !.pin = <<>>]
    /\ UNCHANGED <<graph, data, edges, drag, pan, hover, width, height,
                   animation_running, flow_time>>

(* The animate closure without the test of the running flag *)
AnimationFrame_unconditional(moves) ==
    /\ left.tick > 0
    /\ moves => left.drift > 0
    /\ left' = [left EXCEPT !.tick = @ - 1,
                            !.drift = IF moves THEN @ - 1 ELSE @]
    /\ graph' = graph_update(graph, moves)
    /\ flow_time' = flow_time + FRAME_DT
    /\ hover' = tick_hover(hover, FRAME_DT)
    /\ obs' = [obs EXCEPT
                 !.since = IF hover.node = None THEN @ + 1 ELSE 0,
                 !.pin = IF @ # <<>> /\ moves THEN [@ EXCEPT ![4] = @ + 1] ELSE @]
    /\ UNCHANGED <<data, edges, transform, drag, pan, width, height, animation_running>>

(* The animate closure: tick(0.016) when running, then render (which reads *)
(* the state and changes none of it), then the next frame is requested.    *)
AnimationFrame(moves) ==
    /\ left.tick > 0
    /\ moves => left.drift > 0
    /\ left' = [left EXCEPT !.tick = @ - 1,
                            !.drift = IF moves THEN @ - 1 ELSE @]
    /\ IF animation_running
       THEN /\ graph' = graph_update(graph, moves)
            /\ flow_time' = flow_time + FRAME_DT
            /\ hover' = tick_hover(hover, FRAME_DT)
            /\ obs' = [obs EXCEPT
                         !.since = IF hover.node = None THEN @ + 1 ELSE 0,
                         !.pin = IF @ # <<>> /\ moves THEN [@ EXCEPT ![4] = @ + 1] ELSE @]
       ELSE UNCHANGED <<graph, flow_time, hover, obs>>
    /\ UNCHANGED <<data, edges, transform, drag, pan, width, height, animation_running>>

(* ForceGraphState::tick(dt) called with a timestep of dt milliseconds *)
Tick(dt, moves) ==
    /\ left.tick > 0
    /\ moves => left.drift > 0
    /\ left' = [left EXCEPT !.tick = @ - 1,
                            !.drift = IF moves THEN @ - 1 ELSE @]
    /\ graph' = graph_update(graph, moves)
    /\ flow_time' = flow_time + dt
    /\ hover' = tick_hover(hover, dt)
    /\ obs' = [obs EXCEPT
                 !.since = IF hover.node = None THEN @ + 1 ELSE 0,
                 !.pin = IF @ # <<>> /\ moves THEN [@ EXCEPT ![4] = @ + 1] ELSE @]
    /\ UNCHANGED <<data, edges, transform, drag, pan, width, height, animation_running>>

(* The owner of the state stops (b = FALSE) or restarts (b = TRUE) the     *)
(* animation by writing the running flag                                   *)
SetRunning(b) ==
    /\ animation_running' = b
    /\ UNCHANGED <<data, graph, edges, transform, drag, pan, hover, width, height,
                   flow_time, left, obs>>

(* The resize callback: ForceGraphState::resize *)
Resize(sz) ==
    /\ width' = sz[1] * LenScale
    /\ height' = sz[2] * LenScale
    /\ UNCHANGED <<graph, data, edges, transform, drag, pan, hover, animation_running,
                   flow_time, left, obs>>

Next ==
    \/ \E p \in ScreenPts : MouseDown(p)
    \/ \E p \in ScreenPts : MouseMove(p)
    \/ MouseUp
    \/ MouseLeave
    \/ \E p \in WheelPts, dy \in DeltaYs : Wheel(p, dy)
    \/ \E moves \in BOOLEAN : AnimationFrame(moves)
    \/ \E sz \in Sizes : Resize(sz)

Spec == Init /\ [][Next]_vars

(* The same handlers from a zoomed transform *)
SpecZoom == InitZoom /\ [][Next]_vars

(* Hovering and frames only *)
NextHover ==
    \/ \E p \in ScreenPts : MouseMove(p)
    \/ MouseLeave
    \/ \E moves \in BOOLEAN : AnimationFrame(moves)

SpecHover == InitHover /\ [][NextHover]_vars

(* The state right after ForceGraphState::new(data, 200, 200) for every    *)
(* link list of at most MaxLinks links, and for the lists of LinkLists     *)
InitNew ==
    /\ data \in AllLinks(MaxLinks) \cup LinkLists
    /\ width = 200 * LenScale
    /\ height = 200 * LenScale
    /\ edges = ResolveLinks(NodeIds, data)
    /\ graph = NewNodes(NodeIds, width, height)
    /\ drag = DragDefault
    /\ pan = PanDefault
    /\ animation_running = TRUE
    /\ obs = ObsInit
    /\ transform = NewTransform
    /\ hover = HoverDefault
    /\ flow_time = 0
    /\ left = Budgets(NewPtrBudget, 0, 0, 0)

(* Hovering over the constructed graph *)
NextNew ==
    \/ \E p \in ScreenPts : MouseMove(p)
    \/ MouseLeave

SpecNew == InitNew /\ [][NextNew]_vars

(* set_hover (through pointer-move and pointer-leave) and tick with any of *)
(* the timesteps of TickDts, from the constructed state                    *)
InitTick ==
    /\ Constructed(FALSE)
    /\ transform = NewTransform
    /\ hover = HoverDefault
    /\ flow_time = 0
    /\ left = Budgets(StepPtrBudget, 0, StepTickBudget, 0)

NextTick ==
    \/ \E p \in ScreenPts : MouseMove(p)
    \/ MouseLeave
    \/ \E dt \in TickDts, moves \in BOOLEAN : Tick(dt, moves)

SpecTick == InitTick /\ [][NextTick]_vars

(* Frames, hovering and the running flag being toggled *)
InitRun ==
    /\ Constructed(FALSE)
    /\ transform = NewTransform
    /\ hover = HoverDefault
    /\ flow_time = 0
    /\ left = Budgets(RunPtrBudget, 0, RunTickBudget, DriftBudget)

NextRun ==
    \/ \E p \in ScreenPts : MouseMove(p)
    \/ \E moves \in BOOLEAN : AnimationFrame(moves)
    \/ \E b \in BOOLEAN : SetRunning(b)

SpecRun == InitRun /\ [][NextRun]_vars

(* The state after construction, a drag that dropped node 1 at an offset   *)
(* of PickOffsets from node 0 (pointer-down on node 1, pointer-move,       *)
(* pointer-up) and a run of wheel events                                   *)
InitPick ==
    /\ width = 200 * LenScale
    /\ height = 200 * LenScale
    /\ data \in LinkLists
    /\ edges = ResolveLinks(NodeIds, data)
    /\ \E off \in PickOffsets :
          graph = LET gr == NewNodes(NodeIds, width, height)
                  IN  anchor_node(drag_node(gr, 1, gr[0].x + off, gr[0].y), 1)
    /\ drag = DragDefault
    /\ pan = PanDefault
    /\ animation_running = TRUE
    /\ obs = ObsInit
    /\ \E run \in ZoomRuns : transform = WheelRun(NewTransform, run[1], run[2])
    /\ hover = HoverDefault
    /\ flow_time = 0
    /\ left = Budgets(PickPtrBudget, 0, 0, 0)

(* Pointer events only *)
NextPick ==
    \/ \E p \in ScreenPts : MouseDown(p)
    \/ \E p \in ScreenPts : MouseMove(p)
    \/ MouseUp

SpecPick == InitPick /\ [][NextPick]_vars

(* The state after construction, a pointer-move onto node 1 and n frames,  *)
(* n in GateFrames; then hover changes and ticks with the timesteps of     *)
(* TickDts                                                                 *)
InitGate ==
    /\ Constructed(FALSE)
    /\ transform = NewTransform
    /\ \E n \in GateFrames :
          /\ hover = TickRun(set_hover(HoverDefault, edges, 1), n)
          /\ flow_time = n * FRAME_DT
    /\ left = Budgets(GatePtrBudget, 0, GateTickBudget, 0)

NextGate ==
    \/ \E p \in ScreenPts : MouseMove(p)
    \/ MouseLeave
    \/ \E dt \in TickDts, moves \in BOOLEAN : Tick(dt, moves)

SpecGate == InitGate /\ [][NextGate]_vars

(* Wheel events only, from k = 1.0 and from k one step inside either clamp *)
InitWheel ==
    /\ Constructed(FALSE)
    /\ \E run \in ZoomRuns : transform = WheelRun(NewTransform, run[1], run[2])
    /\ hover = HoverDefault
    /\ flow_time = 0
    /\ left = Budgets(0, WheelStepBudget, 0, 0)

NextWheel == \E p \in WheelStepPts, dy \in DeltaYs : Wheel(p, dy)

SpecWheel == InitWheel /\ [][NextWheel]_vars

-----------------------------------------------------------------------------
(* Helpers of the properties *)

(* world -> screen, screen = world * k + (x, y) *)
world_to_screen(t, wx, wy) ==
    <<RoundDiv(wx * t.k, KScale) + t.x, RoundDiv(wy * t.k, KScale) + t.y>>

(* node_at_position at the screen place of node n *)
PickAtNode(n) ==
    LET sp == world_to_screen(transform, graph[n].x, graph[n].y)
    IN  node_at_position(graph, transform, sp[1], sp[2])

(* Rounding error of world -> screen -> world: one pixel *)
RoundTripSlack == LenScale

(* A node inserted after n lies within the hit radius of node n *)
LaterWithin(n) ==
    \E m \in DOMAIN graph :
        /\ m > n
        /\ Abs(graph[m].x - graph[n].x) < HIT_RADIUS + RoundTripSlack
        /\ Abs(graph[m].y - graph[n].y) < HIT_RADIUS + RoundTripSlack
        /\ (graph[m].x - graph[n].x) * (graph[m].x - graph[n].x)
             + (graph[m].y - graph[n].y) * (graph[m].y - graph[n].y)
             < (HIT_RADIUS + RoundTripSlack) * (HIT_RADIUS + RoundTripSlack)

(* Screen points at which the hit test is probed: the pointer positions of *)
(* the model, the screen place of every node and the points 3 px and 11 px *)
(* to its right                                                            *)
Probes ==
    ScreenPts \cup
    UNION { LET sp == world_to_screen(transform, graph[n].x, graph[n].y)
            IN  {sp, <<sp[1] + 3 * LenScale, sp[2]>>, <<sp[1] + 11 * LenScale, sp[2]>>}
            : n \in DOMAIN graph }

(* Nodes within the hit radius of the world point under screen point p *)
Qualifying(p) ==
    {i \in DOMAIN graph : WithinHit(graph[i], screen_to_graph(transform, p[1], p[2]))}

(* Squared world distance of node i from the world point under p *)
Dist2(i, p) ==
    LET g == screen_to_graph(transform, p[1], p[2])
    IN  (graph[i].x - g[1]) * (graph[i].x - g[1]) + (graph[i].y - g[2]) * (graph[i].y - g[2])

(* Two world points differ by at most one pixel in each coordinate *)
Near(a, b) == Abs(a[1] - b[1]) <= LenScale /\ Abs(a[2] - b[2]) <= LenScale

-----------------------------------------------------------------------------
(* C1. Anchoring idempotence: a node dragged (pointer-down on it, one or   *)
(* more pointer-moves, pointer-up) to its last assigned position P is      *)
(* still exactly at P, and is an anchor, after any number of ticks with no *)
(* pointer or wheel event in between.                                      *)
C1_AnchoringIdempotence ==
    obs.pin # <<>> =>
        /\ graph[obs.pin[1]].x = obs.pin[2]
        /\ graph[obs.pin[1]].y = obs.pin[3]
        /\ graph[obs.pin[1]].is_anchor

(* A released drag followed by a frame in which the integrator moved the   *)
(* free nodes                                                              *)
C1_Witness ==
    /\ obs.pin # <<>>
    /\ obs.pin[4] >= 1
    /\ \E m \in DOMAIN graph : graph[m].x # NewNodes(NodeIds, 200 * LenScale, 200 * LenScale)[m].x
                               /\ ~graph[m].is_anchor

(* C2. Drag and pan are mutually exclusive: drag.active and pan.active are *)
(* never both true in any state reachable by pointer-down, -move, -up,     *)
(* -leave, wheel and tick events, two pointer-downs in a row included.     *)
C2_DragPanExclusive == ~(drag.active /\ pan.active)

(* C3. Zoom clamp: the scale k of the view transform stays within          *)
(* [0.1, 10.0] under every sequence of wheel, pointer and tick events.     *)
C3_ZoomClamp == K_MIN <= transform.k /\ transform.k <= K_MAX

(* Two wheel events of this run, both clamped at 0.1 *)
C3_Witness == transform.k = K_MIN /\ left.wheel = ZoomWheelBudget - 2

(* C4. Zoom-at-point fixpoint: every wheel event at screen point P, also   *)
(* one whose new k is clamped, leaves screen_to_graph(P) where it was, up  *)
(* to one pixel of rounding.                                               *)
C4_ZoomAtPointFixpoint ==
    [][\A p \in WheelPts, dy \in DeltaYs :
          Wheel(p, dy) =>
              Near(screen_to_graph(transform, p[1], p[2]),
                   screen_to_graph(transform', p[1], p[2]))]_vars

(* Wheel events away from the origin's screen place have run k into the    *)
(* upper clamp                                                             *)
C4_Witness ==
    /\ transform.k = K_MAX
    /\ left.wheel = ZoomWheelBudget - 2
    /\ transform.x # 100 * LenScale

(* C5 as claimed. Hit-test zoom invariance: for every node n at world      *)
(* position W and every k in [0.1, 10.0], node_at_position at the screen   *)
(* point W * k + (x, y) returns n, whatever other nodes lie near W.        *)
C5_HitTestZoomInvariance == \A n \in DOMAIN graph : PickAtNode(n) = n

(* C5 as amended. node_at_position at the screen point of node n returns n *)
(* unless a node inserted after n lies within the hit radius of W; then it *)
(* returns a later node. It never returns "no node" or an earlier node.    *)
C5_HitTestLastWithin ==
    \A n \in DOMAIN graph :
        /\ PickAtNode(n) # None
        /\ PickAtNode(n) >= n
        /\ ~LaterWithin(n) => PickAtNode(n) = n

(* A zoomed view in which a later node covers an earlier one *)
C5_Witness ==
    /\ transform.k # KScale
    /\ \E n \in DOMAIN graph : LaterWithin(n) /\ PickAtNode(n) > n

(* C6. Highlight symmetry: for every stored edge (A, B), hovering A puts B *)
(* into the neighbor set and hovering B puts A into it; with edges (0,1),  *)
(* (1,2) hovering node 1 gives exactly {0, 2}.                             *)
C6_HighlightSymmetry ==
    /\ hover.node # None =>
          \A i \in 1..Len(edges) :
              /\ edges[i][1] = hover.node => edges[i][2] \in hover.neighbors
              /\ edges[i][2] = hover.node => edges[i][1] \in hover.neighbors
    /\ (edges = << <<0, 1>>, <<1, 2>> >> /\ hover.node = 1) => hover.neighbors = {0, 2}

(* Node 1 of the chain 0 - 1 - 2 is hovered *)
C6_Witness ==
    /\ edges = << <<0, 1>>, <<1, 2>> >>
    /\ hover.node = 1
    /\ hover.neighbors = {0, 2}

(* C7. Highlight decay convergence: once the hover target is cleared,      *)
(* DecayBound ticks of 16 ms bring highlight_t to exactly 0, and a tick    *)
(* that leaves highlight_t at 0 leaves no previous-hover snapshot.         *)
C7_DecayConvergence ==
    hover.node = None =>
        /\ obs.since >= DecayBound => hover.highlight_t = 0
        /\ (obs.since >= 1 /\ hover.highlight_t = 0) =>
              (hover.prev_node = None /\ hover.prev_neighbors = {})

(* A fade still under way more than 220 ticks after the target was cleared *)
C7_Witness ==
    /\ hover.node = None
    /\ obs.since >= DecayBound - 10
    /\ hover.highlight_t > 0
    /\ hover.prev_node = 1

(* C9. Ending a drag anchors the node: when node n is being dragged and    *)
(* the drag ends by pointer-up or pointer-leave, with or without a         *)
(* pointer-move in between, drag state is cleared and n is an anchor.      *)
C9_DragEndAnchors ==
    [][(drag.active /\ drag.node_idx # None /\ (MouseUp \/ MouseLeave)) =>
          /\ graph'[drag.node_idx].is_anchor
          /\ ~drag'.active
          /\ drag'.node_idx = None]_vars

(* C10. Anchor permanence: no pointer, wheel, resize or tick event sets    *)
(* is_anchor of a node back to false.                                      *)
C10_AnchorPermanence ==
    [][\A n \in DOMAIN graph : graph[n].is_anchor => graph'[n].is_anchor]_vars

(* A node pinned by a drag that has been released, and a frame has run *)
C10_Witness ==
    /\ \E n \in DOMAIN graph : graph[n].is_anchor
    /\ ~drag.active
    /\ drag.node_idx = None
    /\ left.ptr = 0
    /\ left.tick < TickBudget
    /\ flow_time > 0

(* C11. Pointer-down transition: a pointer-down at screen point p whose    *)
(* hit test returns node n sets drag.active and records n, the press       *)
(* position and n's position at the press; one whose hit test returns no   *)
(* node sets pan.active and records the press position and the transform's *)
(* (x, y). Neither moves a node or changes an anchor flag.                 *)
C11_PointerDownTransition ==
    [][\A p \in ScreenPts :
          MouseDown(p) =>
              LET n == node_at_position(graph, transform, p[1], p[2])
              IN  /\ graph' = graph
                  /\ n # None =>
                        /\ drag'.active /\ drag'.node_idx = n
                        /\ drag'.start_x = p[1] /\ drag'.start_y = p[2]
                        /\ drag'.node_start_x = graph[n].x
                        /\ drag'.node_start_y = graph[n].y
                  /\ n = None =>
                        /\ pan'.active
                        /\ pan'.start_x = p[1] /\ pan'.start_y = p[2]
                        /\ pan'.transform_start_x = transform.x
                        /\ pan'.transform_start_y = transform.y]_vars

(* A press on node 1 after node 1 was dragged onto node 0's place *)
C11_Witness ==
    /\ drag.active
    /\ drag.node_idx = 1
    /\ drag.start_x = 3000
    /\ drag.node_start_x = graph[0].x
    /\ drag.node_start_y = graph[0].y
    /\ left.ptr = PtrBudget - 3

(* C12. Pointer-leave resets interaction: after a pointer-leave in any     *)
(* state (idle, dragging, panning) drag.active is false, drag.node_idx is  *)
(* None, pan.active is false and the hover target is None; a node that was *)
(* hovered, with its neighbor set, is then the previous-hover snapshot.    *)
C12_PointerLeaveResets ==
    [][MouseLeave =>
          /\ ~drag'.active
          /\ drag'.node_idx = None
          /\ ~pan'.active
          /\ hover'.node = None
          /\ hover.node # None =>
                /\ hover'.prev_node = hover.node
                /\ hover'.prev_neighbors = hover.neighbors]_vars

(* The pointer left during a drag that was started on the hovered node *)
C12_Witness ==
    /\ hover.node = None
    /\ hover.prev_node = 1
    /\ hover.prev_neighbors # {}
    /\ drag.start_x # 0
    /\ ~drag.active
    /\ drag.node_idx = None
    /\ ~pan.active
    /\ ~graph[1].is_anchor

(* C13. Wheel step: a wheel event with deltaY > 0 sets k to                *)
(* clamp(k * 0.9, 0.1, 10.0); a wheel event with deltaY < 0, and every     *)
(* wheel event that zooms in, sets k to clamp(k * 1.1, 0.1, 10.0); and     *)
(* deltaY = 100 at screen (50, 50) with k = 1.0 yields k = 0.9.            *)
C13_WheelStep ==
    [][\A p \in WheelStepPts, dy \in DeltaYs :
          Wheel(p, dy) =>
              /\ dy > 0 => transform'.k = Clamp(RoundDiv(transform.k * 9, 10), K_MIN, K_MAX)
              /\ dy < 0 => transform'.k = Clamp(RoundDiv(transform.k * 11, 10), K_MIN, K_MAX)
              /\ transform'.k > transform.k =>
                    transform'.k = Clamp(RoundDiv(transform.k * 11, 10), K_MIN, K_MAX)
              /\ (dy = 100 /\ p = <<500, 500>> /\ transform.k = KScale) =>
                    transform'.k = (9 * KScale) \div 10]_vars

(* The state after deltaY = 100 at screen (50, 50) from the constructed    *)
(* transform (100, 100, 1.0)                                               *)
C13_Witness ==
    /\ transform = [x |-> 950, y |-> 950, k |-> 900]
    /\ left.wheel = WheelStepBudget - 1

(* C14. Construction drops unresolvable links silently: the stored edge    *)
(* list is exactly the input links, in input order, whose source and       *)
(* target ids both name a node, as pairs of node indices; every endpoint   *)
(* is the index of an existing node; self-loops and parallel links are     *)
(* each kept as an edge of their own; and every input yields a state.      *)
C14_UnresolvableLinksDropped ==
    LET Named(id) == \E j \in 1..Len(NodeIds) : NodeIds[j] = id
        IndexOf(id) == (CHOOSE j \in 1..Len(NodeIds) : NodeIds[j] = id) - 1
        Resolves(l) == Named(l[1]) /\ Named(l[2])
        kept == SelectSeq(data, Resolves)
    IN  /\ Len(edges) = Len(kept)
        /\ \A i \in 1..Len(kept) :
              /\ edges[i] = <<IndexOf(kept[i][1]), IndexOf(kept[i][2])>>
              /\ edges[i][1] \in DOMAIN graph
              /\ edges[i][2] \in DOMAIN graph
        /\ DOMAIN graph = 0..(Len(NodeIds) - 1)

(* Two parallel links, a self-loop and a link to an id that names no node: *)
(* three edges are stored, and hovering node 1 finds its self-loop         *)
C14_Witness ==
    /\ data = << <<"c", "a">>, <<"c", "a">>, <<"b", "b">>, <<"b", "z">> >>
    /\ edges = << <<2, 0>>, <<2, 0>>, <<1, 1>> >>
    /\ hover.node = 1
    /\ hover.neighbors = {1}

(* C15. Highlight intensity range: in every state reachable by set_hover   *)
(* calls and tick(dt) calls with dt >= 0, 0 <= highlight_t <= 1.           *)
C15_HighlightRange == 0 <= hover.highlight_t /\ hover.highlight_t <= HScale

(* C16. Running flag: a frame callback that runs while animation_running   *)
(* is false changes no simulation state (node positions, flow_time, delay  *)
(* timer, highlight_t, previous-hover snapshot); a frame that runs while   *)
(* the flag is true, also after it was false, ticks by 16 ms; no frame     *)
(* changes the flag; and whatever the flag is, the next frame is scheduled *)
(* (a further frame can run).                                              *)
C16_RunningFlag ==
    /\ [][\A moves \in BOOLEAN :
             AnimationFrame(moves) =>
                 /\ animation_running' = animation_running
                 /\ ~animation_running =>
                       /\ graph' = graph
                       /\ flow_time' = flow_time
                       /\ hover' = hover
                 /\ animation_running =>
                       /\ flow_time' = flow_time + FRAME_DT
                       /\ hover' = tick_hover(hover, FRAME_DT)
                       /\ graph' = graph_update(graph, moves)]_vars
    /\ [](left.tick > 0 => ENABLED AnimationFrame(FALSE))

(* Two frames have run, one of them skipped while the flag was false, and  *)
(* the flag is true again; the hovered node's delay timer and flow_time    *)
(* advanced by one frame only                                              *)
C16_Witness ==
    /\ animation_running
    /\ left.tick = RunTickBudget - 2
    /\ flow_time = FRAME_DT
    /\ hover.node # None
    /\ hover.delay_t = FRAME_DT
    /\ \E n \in DOMAIN graph : graph[n].x # NewNodes(NodeIds, 200 * LenScale, 200 * LenScale)[n].x

(* C17. Hit-test tie-break: when several nodes lie within HIT_RADIUS of    *)
(* the pointer's world position, node_at_position returns the one that is  *)
(* last in insertion order, nearest or not; when exactly one qualifies it  *)
(* returns that one; when none qualifies it returns None.                  *)
C17_HitTestTieBreak ==
    \A p \in Probes :
        LET r == node_at_position(graph, transform, p[1], p[2])
        IN  IF Qualifying(p) = {} THEN r = None
            ELSE /\ r \in Qualifying(p)
                 /\ \A i \in Qualifying(p) : i <= r

(* A press at node 0's screen place picked node 1, which lies within the   *)
(* hit radius but farther from the pointer than node 0                     *)
C17_Witness ==
    /\ drag.active
    /\ drag.node_idx = 1
    /\ Qualifying(<<drag.start_x, drag.start_y>>) = {0, 1}
    /\ Dist2(1, <<drag.start_x, drag.start_y>>) > Dist2(0, <<drag.start_x, drag.start_y>>)
    /\ graph[1].x = drag.node_start_x
    /\ left.ptr = PickPtrBudget - 1

(* C18. Drag tracking: after every pointer-move at screen point p while    *)
(* node n is dragged, n's position is its position at the press plus       *)
(* (p minus the press screen position) divided by k, n is an anchor, no    *)
(* other node and no transform field is changed; so on the screen the node *)
(* has moved by the pointer's delta (up to one pixel of rounding).         *)
C18_DragTracking ==
    [][\A p \in ScreenPts :
          (MouseMove(p) /\ drag.active /\ drag.node_idx # None) =>
              LET n == drag.node_idx
                  from == world_to_screen(transform, drag.node_start_x, drag.node_start_y)
                  to == world_to_screen(transform, graph'[n].x, graph'[n].y)
              IN  /\ graph'[n].x = drag.node_start_x
                                      + RoundDiv((p[1] - drag.start_x) * KScale, transform.k)
                  /\ graph'[n].y = drag.node_start_y
                                      + RoundDiv((p[2] - drag.start_y) * KScale, transform.k)
                  /\ graph'[n].is_anchor
                  /\ \A i \in DOMAIN graph : i # n => graph'[i] = graph[i]
                  /\ transform' = transform
                  /\ Near(<<to[1] - from[1], to[2] - from[2]>>,
                          <<p[1] - drag.start_x, p[2] - drag.start_y>>)]_vars

(* A node dragged away from its place at the press in a zoomed view *)
C18_Witness ==
    /\ drag.active
    /\ obs.moved # <<>>
    /\ obs.moved[1] = drag.node_idx
    /\ transform.k # KScale
    /\ graph[drag.node_idx].x # drag.node_start_x
    /\ graph[drag.node_idx].is_anchor

(* C19. Pan tracking: after every pointer-move at screen point p while     *)
(* panning (pan active, no drag active), the transform's (x, y) is the     *)
(* (x, y) recorded at the press plus the raw screen delta (p minus the     *)
(* press position), not divided by k; k, every node position and every     *)
(* anchor flag are unchanged.                                              *)
C19_PanTracking ==
    [][\A p \in ScreenPts :
          (MouseMove(p) /\ pan.active /\ ~drag.active) =>
              /\ transform'.x = pan.transform_start_x + (p[1] - pan.start_x)
              /\ transform'.y = pan.transform_start_y + (p[2] - pan.start_y)
              /\ transform'.k = transform.k
              /\ graph' = graph]_vars

(* A pan in a zoomed view has moved the origin by a pointer delta *)
C19_Witness ==
    /\ pan.active
    /\ ~drag.active
    /\ transform.k # KScale
    /\ \E p \in ScreenPts :
          /\ p[1] # pan.start_x
          /\ p[2] # pan.start_y
          /\ transform.x = pan.transform_start_x + (p[1] - pan.start_x)
          /\ transform.y = pan.transform_start_y + (p[2] - pan.start_y)

(* C20. Idle pointer-move: a pointer-move while neither dragging nor       *)
(* panning sets the hover target to the result of node_at_position at the  *)
(* pointer and changes no node position, no anchor flag and no transform   *)
(* field.                                                                  *)
C20_IdlePointerMove ==
    [][\A p \in ScreenPts :
          (MouseMove(p) /\ ~drag.active /\ ~pan.active) =>
              /\ hover'.node = node_at_position(graph, transform, p[1], p[2])
              /\ graph' = graph
              /\ transform' = transform]_vars

(* With no press so far, the pointer has moved onto node 0 in a zoomed     *)
(* view                                                                    *)
C20_Witness ==
    /\ hover.node = 0
    /\ ~drag.active
    /\ ~pan.active
    /\ drag.start_x = 0
    /\ pan.start_x = 0
    /\ transform.k # KScale

(* C21 as claimed. Hover is updated only in Idle: a pointer-move while a   *)
(* drag or a pan is active leaves the hover target, the neighbor set and   *)
(* the previous-hover snapshot unchanged.                                  *)
C21_HoverOnlyInIdle ==
    [][\A p \in ScreenPts :
          (MouseMove(p) /\ (drag.active \/ pan.active)) =>
              /\ hover'.node = hover.node
              /\ hover'.neighbors = hover.neighbors
              /\ hover'.prev_node = hover.prev_node
              /\ hover'.prev_neighbors = hover.prev_neighbors]_vars

(* C21 as amended. A pointer-move while a drag is active leaves the hover  *)
(* target, the neighbor set and the previous-hover snapshot unchanged; a   *)
(* pointer-move while a pan and no drag is active sets the hover target to *)
(* the result of the hit test at the pointer, as in Idle.                  *)
C21_HoverUnlessDragging ==
    [][\A p \in ScreenPts :
          MouseMove(p) =>
              /\ drag.active =>
                    /\ hover'.node = hover.node
                    /\ hover'.neighbors = hover.neighbors
                    /\ hover'.prev_node = hover.prev_node
                    /\ hover'.prev_neighbors = hover.prev_neighbors
              /\ (pan.active /\ ~drag.active) =>
                    hover'.node = node_at_position(graph, transform, p[1], p[2])]_vars

(* A press on the empty canvas and one pointer-move: the pan has moved the *)
(* view and the move has made a node the hover target                      *)
C21_Witness ==
    /\ pan.active
    /\ ~drag.active
    /\ left.ptr = PickPtrBudget - 2
    /\ hover.node # None
    /\ transform.x # pan.transform_start_x

(* C22. Previous-hover snapshot rule: when the hover target changes from a *)
(* node h to nothing, h becomes prev_node and h's neighbor set becomes     *)
(* prev_neighbors; on every other change of the hover target (nothing to a *)
(* node, a node to a different node) prev_node becomes None and            *)
(* prev_neighbors empty.                                                   *)
C22_SnapshotRule ==
    [][hover'.node # hover.node =>
          IF hover.node # None /\ hover'.node = None
          THEN /\ hover'.prev_node = hover.node
               /\ hover'.prev_neighbors = hover.neighbors
          ELSE /\ hover'.prev_node = None
               /\ hover'.prev_neighbors = {}]_vars

(* The pointer left node 1 of the chain while it was lit: node 1 and its   *)
(* neighbors are the snapshot                                              *)
C22_Witness ==
    /\ hover.node = None
    /\ hover.prev_node = 1
    /\ hover.prev_neighbors = {0, 2}
    /\ hover.neighbors = {}
    /\ hover.highlight_t > 0
    /\ left.ptr = GatePtrBudget - 1

(* C23. Delay reset rule: set_hover sets the delay timer to zero exactly   *)
(* when the hover target changes from nothing to a node; a change from one *)
(* node to another, a change to nothing and a call with the current target *)
(* leave the delay timer unchanged.                                        *)
C23_DelayResetRule ==
    [][((\E p \in ScreenPts : MouseMove(p)) \/ MouseLeave) =>
          IF hover.node = None /\ hover'.node # None
          THEN hover'.delay_t = 0
          ELSE hover'.delay_t = hover.delay_t]_vars

(* The pointer went from node 1 straight to node 0 with the delay timer    *)
(* part-way                                                                *)
C23_Witness ==
    /\ hover.node = 0
    /\ hover.delay_t > 0
    /\ hover.delay_t < HOVER_DELAY
    /\ left.ptr = GatePtrBudget - 1

(* C24 as claimed. Activation delay gating: while a node is hovered, each  *)
(* tick(dt) advances the delay timer by dt, capped at 0.08 s, and leaves   *)
(* highlight_t unchanged as long as the timer is below 0.08 s; in every    *)
(* tick where the timer has reached 0.08 s, highlight_t moves toward 1.0   *)
(* by (1 - highlight_t) * 1.8 * dt. While nothing is hovered, each tick    *)
(* moves highlight_t toward 0.0 by highlight_t * 1.26 * dt.                *)
C24_DelayGating ==
    [][\A dt \in TickDts, moves \in BOOLEAN :
          Tick(dt, moves) =>
              IF hover.node # None
              THEN /\ hover'.delay_t = Min(hover.delay_t + dt, HOVER_DELAY)
                   /\ hover'.delay_t < HOVER_DELAY =>
                         hover'.highlight_t = hover.highlight_t
                   /\ hover'.delay_t >= HOVER_DELAY =>
                         hover'.highlight_t = hover.highlight_t
                             + RoundDiv((HScale - hover.highlight_t) * HOVER_SPEED * dt, 100000)
              ELSE hover'.highlight_t = hover.highlight_t
                       + RoundDiv((0 - hover.highlight_t) * FADE_SPEED * dt, 100000)]_vars

(* C24 as amended. As claimed while a node is hovered; while nothing is    *)
(* hovered, each tick moves highlight_t toward 0.0 by                      *)
(* highlight_t * 1.26 * dt, except that a result below 0.01 is replaced by *)
(* exactly 0; the delay timer is then left as it is.                       *)
C24_DelayGatingWithSnap ==
    [][\A dt \in TickDts, moves \in BOOLEAN :
          Tick(dt, moves) =>
              IF hover.node # None
              THEN /\ hover'.delay_t = Min(hover.delay_t + dt, HOVER_DELAY)
                   /\ hover'.delay_t < HOVER_DELAY =>
                         hover'.highlight_t = hover.highlight_t
                   /\ hover'.delay_t >= HOVER_DELAY =>
                         hover'.highlight_t = hover.highlight_t
                             + RoundDiv((HScale - hover.highlight_t) * HOVER_SPEED * dt, 100000)
              ELSE LET r == hover.highlight_t
                              + RoundDiv((0 - hover.highlight_t) * FADE_SPEED * dt, 100000)
                   IN  /\ hover'.highlight_t = IF r < FADE_EPSILON THEN 0 ELSE r
                       /\ hover'.delay_t = hover.delay_t]_vars

(* The tick that brings the delay timer from 64 ms to 80 ms is the first   *)
(* that raises highlight_t, by 1.8 * 0.016                                 *)
C24_Witness ==
    /\ hover.node = 1
    /\ hover.delay_t = HOVER_DELAY
    /\ hover.highlight_t = 288
    /\ left.tick = GateTickBudget - 1
    /\ left.ptr = GatePtrBudget
    /\ flow_time = 5 * FRAME_DT

C27_PrevOnlyWhileUnhovered ==
    (hover.prev_node # None \/ hover.prev_neighbors # {}) => hover.node = None

(* The pointer left node 1 while it was lit and reached node 0 before the  *)
(* fade ended: the delay timer restarted and the snapshot is gone          *)
C27_Witness ==
    /\ hover.node = 0
    /\ hover.delay_t = 0
    /\ flow_time >= 5 * FRAME_DT
    /\ hover.highlight_t > 0
    /\ hover.prev_node = None
    /\ hover.prev_neighbors = {}
    /\ left.ptr = 0

(* C28. Neighbor set consistency: in every reachable state the live        *)
(* neighbor set is the set of nodes joined to the hover target by a stored *)
(* edge in either direction, and is empty when nothing is hovered.         *)
C28_NeighborsConsistent ==
    hover.neighbors =
        IF hover.node = None THEN {}
        ELSE {j \in DOMAIN graph :
                \E i \in 1..Len(edges) :
                    \/ (edges[i][1] = hover.node /\ edges[i][2] = j)
                    \/ (edges[i][2] = hover.node /\ edges[i][1] = j)}

(* A hovered node still has its neighbors after a wheel event, a tick and  *)
(* a drag in progress                                                      *)
C28_Witness ==
    /\ hover.node # None
    /\ hover.neighbors # {}
    /\ transform.k # KScale
    /\ flow_time > 0
    /\ drag.active
====
